---- MODULE Spec2Model ----
(***************************************************************************)
(* QdrantIndex (services/vector_index/qdrant.py): the retrieval            *)
(* orchestrator over a Qdrant collection.  The collection is the state;    *)
(* upsert_vectors, delete_document, vector_search, hybrid_search and       *)
(* decomposed_search are the operations.  Texts, queries and keywords are  *)
(* sequences of characters, embeddings are small integer vectors compared  *)
(* by cosine similarity.                                                   *)
(***************************************************************************)
EXTENDS Integers, Sequences, FiniteSets, TLC

VARIABLES
    store,         \* the points of the collection, in id order
    pc,            \* "idle": no call in flight; "returned": a call has produced resp
    last,          \* the call that produced resp: its operation and its arguments
    resp,          \* what the call handed to its caller (a response or a raised error)
    trace,         \* the locals of the call, kept for the properties
    deletedSince   \* <<d, b>>: a delete of document d answered success, having removed
                   \* points (b) or found none, and no upsert for d was made since

vars == <<store, pc, last, resp, trace, deletedSince>>

----------------------------------------------------------------------------
(* Bounds of the model *)

\* batches a collection holds at most
MaxBatches == 2
\* points a collection holds at most
MaxPoints == 68
\* queries of one vector_search call at most
MaxQueries == 2
\* chunks of the long document
LongLen == 64

(* Constants of the program *)

\* limit=40 of both similarity searches
SemanticLimit == 40
\* sorted_keyword_chunks[:20]
KeywordCap == 20

----------------------------------------------------------------------------
(* Values *)

Docs == {"d1", "d2"}

Rep(c, n) == [k \in 1..n |-> c]

Min(a, b) == IF a < b THEN a ELSE b

Take(s, n) == SubSeq(s, 1, Min(n, Len(s)))

Range(s) == {s[i] : i \in 1..Len(s)}

\* the compound query of a decomposed search
CompoundQueries == {<<"a", "b", "b", "a">>}

\* the query strings a caller sends
Queries == {<<"b", "b", "b">>, <<"a", "a", "b">>}

\* the keyword lists extract_keywords hands back
KeywordLists == {<< >>, <<<<"a">>>>, <<<<"B">>, <<"A", "a">>>>}

\* the lists a caller of vector_search, or the decomposer, can produce
RECURSIVE SeqsUpTo(_, _)
SeqsUpTo(S, n) ==
    IF n = 0 THEN {<< >>}
    ELSE LET shorter == SeqsUpTo(S, n - 1)
         IN  shorter \cup {Append(s, x) : s \in {t \in shorter : Len(t) = n - 1}, x \in S}

QueryLists == SeqsUpTo(Queries, MaxQueries)

\* the chunk lists (langchain Documents: page_content, metadata.page) a caller upserts
ShortDoc ==
    << [page_content |-> <<"a", "B", "a">>, page |-> 1],
       [page_content |-> <<"B", "b">>, page |-> 1],
       [page_content |-> <<"A", "a", "a", "b">>, page |-> 2] >>

\* a long document: 22 chunks about "a", the others about "b"
LongDoc ==
    [i \in 1..LongLen |->
        [page_content |->
            IF i <= 22 THEN Rep("a", i % 3) \o <<"A", "a">>
            ELSE Rep("B", 1 + (i % 3)) \o Rep("a", i % 2) \o Rep("b", (i \div 7) % 2),
         page |-> ((i - 1) \div 5) + 1]]

Batches == {ShortDoc, LongDoc}

\* the page of a query_points call that names no limit: the client's default of 10
\* points, or a page that holds every match
PageSizes == {10, MaxPoints}

----------------------------------------------------------------------------
(* Collaborators *)

\* str.lower on one character and on a string
LowerChar(c) == CASE c = "A" -> "a" [] c = "B" -> "b" [] OTHER -> c

lower(s) == [i \in 1..Len(s) |-> LowerChar(s[i])]

\* str.count: the non-overlapping occurrences of sub in text, scanning from the left
RECURSIVE CountFrom(_, _, _)
CountFrom(text, sub, i) ==
    IF i + Len(sub) - 1 > Len(text) THEN 0
    ELSE IF SubSeq(text, i, i + Len(sub) - 1) = sub
         THEN 1 + CountFrom(text, sub, i + Len(sub))
         ELSE CountFrom(text, sub, i + 1)

str_count(text, sub) == IF Len(sub) = 0 THEN Len(text) + 1 ELSE CountFrom(text, sub, 1)

\* the Embedding Provider: deterministic, one vector per text
embed_query(text) ==
    << 1 + Cardinality({i \in 1..Len(text) : LowerChar(text[i]) = "a"}),
       1 + Cardinality({i \in 1..Len(text) : LowerChar(text[i]) = "b"}) >>

Dot(u, v) == u[1] * v[1] + u[2] * v[2]

\* Distance.COSINE: the squared cosine of u and q, up to the factor 1/(q.q) all the
\* points of one search share, as a fraction <<numerator, denominator>>; all
\* coordinates are positive
Cosine(u, q) == <<Dot(u, q) * Dot(u, q), Dot(u, u)>>

\* order of the sort keys, which are fractions with a positive denominator
KeyLeq(a, b) == a[1] * b[2] <= b[1] * a[2]

Neg(a) == <<0 - a[1], a[2]>>

\* sorted(items, key=...): a stable sort, ascending by key; pairs[i] is
\* [key |-> the key of item i, item |-> item i].  The items are placed one after the
\* other, each behind the placed items whose key is not greater.
RECURSIVE sort_loop(_, _)
sort_loop(pairs, acc) ==
    IF Len(acc) = Len(pairs) THEN [k \in 1..Len(acc) |-> acc[k].item]
    ELSE LET e == pairs[Len(acc) + 1]
             p == Cardinality({j \in 1..Len(acc) : KeyLeq(acc[j].key, e.key)})
         IN  sort_loop(pairs, SubSeq(acc, 1, p) \o <<e>> \o SubSeq(acc, p + 1, Len(acc)))

sorted(pairs) == sort_loop(pairs, << >>)

----------------------------------------------------------------------------
(* The Point Store *)

\* a new point gets an id above every id of the collection
NextId(st) == Len(st) + 1

\* VectorIndex.prepare_chunks: one entry per chunk, numbered by its position in the
\* document, with the embedding of its text.  The id stays in the record of the
\* payload, where the properties read a chunk's origin from it.
prepare_chunks(st, document_id, chunks) ==
    [i \in 1..Len(chunks) |->
        [id |-> NextId(st) + i - 1,
         vector |-> embed_query(chunks[i].page_content),
         text |-> chunks[i].page_content,
         page_number |-> chunks[i].page,
         chunk_number |-> i,
         document_id |-> document_id]]

\* FieldCondition(key="document_id", match=MatchValue(value=document_id))
DocumentMatch(p, document_id) == p.document_id = document_id

\* FieldCondition(key="text", match=MatchText(text=keyword)) on a collection created
\* without a full-text index: keyword is a substring of the text
MatchText(text, keyword) ==
    \E i \in 1..(Len(text) - Len(keyword) + 1) :
        SubSeq(text, i, i + Len(keyword) - 1) = keyword

\* the filter with the must condition left out
KeywordFilterShouldOnly(p, document_id, keywords) ==
    \E k \in 1..Len(keywords) : MatchText(p.text, keywords[k])

\* Filter(must=document_id, should=like_conditions): the must condition and, when
\* there are should conditions, at least one of them
KeywordFilter(p, document_id, keywords) ==
    /\ DocumentMatch(p, document_id)
    /\ \/ keywords = << >>
       \/ \E k \in 1..Len(keywords) : MatchText(p.text, keywords[k])

\* the similarity search with the limit left out
similarity_search_unlimited(st, embedded_query, document_id, limit) ==
    LET points == SelectSeq(st, LAMBDA p : DocumentMatch(p, document_id))
    IN  sorted([i \in 1..Len(points) |->
                   [key |-> Neg(Cosine(points[i].vector, embedded_query)),
                    item |-> points[i]]])

\* query_points(query=embedded_query, limit=..., query_filter=document_id): the
\* points of the document, nearest first, at most limit of them
similarity_search(st, embedded_query, document_id, limit) ==
    LET points == SelectSeq(st, LAMBDA p : DocumentMatch(p, document_id))
    IN  Take(sorted([i \in 1..Len(points) |->
                        [key |-> Neg(Cosine(points[i].vector, embedded_query)),
                         item |-> points[i]]]),
             limit)

\* query_points(query_filter=_filter) with no query and no limit: the matching
\* points in id order, one page of them, the page size being the store's own
text_match_search(st, document_id, keywords, pageSize) ==
    Take(SelectSeq(st, LAMBDA p : KeywordFilter(p, document_id, keywords)), pageSize)

\* the ids are opaque: the model keeps the points of a collection numbered 1..n, in
\* id order
Renumber(st) == [i \in 1..Len(st) |-> [st[i] EXCEPT !.id = i]]

\* a delete that removes the first point of the document only
delete_first_point(st, document_id) ==
    Renumber(SelectSeq(st, LAMBDA p :
        \/ ~DocumentMatch(p, document_id)
        \/ \E q \in Range(st) : DocumentMatch(q, document_id) /\ q.id < p.id))

\* client.delete(points_selector=Filter(must=[document_id]), wait=True)
delete_points(st, document_id) ==
    Renumber(SelectSeq(st, LAMBDA p : ~DocumentMatch(p, document_id)))

----------------------------------------------------------------------------
(* Responses *)

\* Chunk(content=chunk["text"], page=chunk["page_number"])
Chunk(p) == [content |-> p.text, page |-> p.page_number]

\* the ids of the points whose payloads a list holds
Ids(chunks) == [i \in 1..Len(chunks) |-> chunks[i].id]

\* the locals of a call: the collaborators called, in order, and the lists of
\* payloads, each as the ids of its points
NoTrace ==
    [log |-> << >>, origin |-> << >>, final_chunks |-> << >>,
     keyword_response |-> << >>, semantic_response |-> << >>,
     combined_chunks |-> << >>]

NoResp ==
    [outcome |-> "none", error |-> "", message |-> "", chunks |-> << >>,
     sub_queries |-> << >>]

NoCall ==
    [op |-> "none", document_id |-> "", queries |-> << >>, query |-> << >>,
     keywords |-> << >>, failAt |-> 0, pageSize |-> 0]

\* an exception of a collaborator leaving the call: nothing is returned
Raised(err, log) ==
    [resp |-> [NoResp EXCEPT !.outcome = "raised", !.error = err],
     trace |-> [NoTrace EXCEPT !.log = log]]

\* VectorResponse(message="Query processed successfully.", chunks=[Chunk(**c) ...])
VectorResponse(origin, tr) ==
    [resp |-> [NoResp EXCEPT !.outcome = "ok",
                             !.message = "Query processed successfully.",
                             !.chunks = [i \in 1..Len(origin) |-> Chunk(origin[i])]],
     trace |-> [tr EXCEPT !.origin = Ids(origin)]]

----------------------------------------------------------------------------
(* vector_search *)

\* the loop over the queries: call 2i-1 embeds query i, call 2i searches for it;
\* failAt is the call that raises (0: none does)
RECURSIVE query_loop(_, _, _, _, _, _)
query_loop(st, queries, document_id, failAt, i, acc) ==
    IF i > Len(queries) THEN acc
    ELSE IF failAt = 2 * i - 1
    THEN [acc EXCEPT !.raised = "EmbeddingError",
                     !.log = acc.log \o <<"embed_query">>]
    ELSE IF failAt = 2 * i
    THEN [acc EXCEPT !.raised = "StoreError",
                     !.log = acc.log \o <<"embed_query", "query_points">>]
    ELSE LET query_response ==
                 similarity_search(st, embed_query(queries[i]), document_id,
                                   SemanticLimit)
         IN  query_loop(st, queries, document_id, failAt, i + 1,
                 [acc EXCEPT !.final_chunks = acc.final_chunks \o query_response,
                             !.log = acc.log \o <<"embed_query", "query_points">>])

\* the loop over the chunks: a chunk whose chunk_number was seen is dropped
RECURSIVE unique_loop(_, _, _)
unique_loop(chunks, i, acc) ==
    IF i > Len(chunks) THEN acc.formatted_output
    ELSE IF chunks[i].chunk_number \in acc.seen_chunks
    THEN unique_loop(chunks, i + 1, acc)
    ELSE unique_loop(chunks, i + 1,
             [seen_chunks |-> acc.seen_chunks \cup {chunks[i].chunk_number},
              formatted_output |-> Append(acc.formatted_output, chunks[i])])

\* a loop that drops a chunk only when the chunk before it has its chunk_number
unique_adjacent(chunks) ==
    LET keep == {i \in 1..Len(chunks) :
                    i = 1 \/ chunks[i].chunk_number # chunks[i - 1].chunk_number}
    IN  [k \in 1..Cardinality(keep) |->
            chunks[CHOOSE i \in keep : Cardinality({j \in keep : j <= i}) = k]]

\* a loop that keeps the last chunk of a chunk_number, not the first
unique_last(chunks) ==
    LET keep == {i \in 1..Len(chunks) :
                    \A j \in (i + 1)..Len(chunks) :
                        chunks[j].chunk_number # chunks[i].chunk_number}
    IN  [k \in 1..Cardinality(keep) |->
            chunks[CHOOSE i \in keep : Cardinality({j \in keep : j <= i}) = k]]

unique_chunks(chunks) ==
    unique_loop(chunks, 1, [seen_chunks |-> {}, formatted_output |-> << >>])

\* a vector_search that catches the failure and answers with the chunks of the
\* queries before it
vector_search_partial(st, queries, document_id, failAt) ==
    LET r == query_loop(st, queries, document_id, failAt, 1,
                 [raised |-> "", log |-> << >>, final_chunks |-> << >>])
    IN  VectorResponse(unique_chunks(r.final_chunks),
            [NoTrace EXCEPT !.log = r.log, !.final_chunks = Ids(r.final_chunks)])

vector_search(st, queries, document_id, failAt) ==
    LET r == query_loop(st, queries, document_id, failAt, 1,
                 [raised |-> "", log |-> << >>, final_chunks |-> << >>])
    IN  IF r.raised # "" THEN Raised(r.raised, r.log)
        ELSE VectorResponse(unique_chunks(r.final_chunks),
                 [NoTrace EXCEPT !.log = r.log,
                                 !.final_chunks = Ids(r.final_chunks)])

----------------------------------------------------------------------------
(* hybrid_search *)

\* count_keywords: the occurrences of every keyword in the text, case ignored, summed
RECURSIVE count_from(_, _, _)
count_from(text, keywords, k) ==
    IF k > Len(keywords) THEN 0
    ELSE str_count(lower(text), lower(keywords[k])) + count_from(text, keywords, k + 1)

count_keywords(text, keywords) == count_from(text, keywords, 1)

\* sorted(keyword_response, key=count_keywords, reverse=True): greatest count first,
\* equal counts in the order of the response
sort_by_keywords(keyword_response, keywords) ==
    sorted([i \in 1..Len(keyword_response) |->
               [key |-> <<0 - count_keywords(keyword_response[i].text, keywords), 1>>,
                item |-> keyword_response[i]]])

\* the combined chunks left as they are
unsorted(combined_chunks) == combined_chunks

\* sorted(combined_chunks, key=chunk_number)
sort_by_chunk_number(combined_chunks) ==
    sorted([i \in 1..Len(combined_chunks) |->
               [key |-> <<combined_chunks[i].chunk_number, 1>>,
                item |-> combined_chunks[i]]])

\* the keyword chunks combined without the slice
combine_uncapped(sorted_keyword_chunks, semantic_response) ==
    sorted_keyword_chunks \o semantic_response

\* sorted_keyword_chunks[:20] + semantic_response
combine(sorted_keyword_chunks, semantic_response) ==
    Take(sorted_keyword_chunks, KeywordCap) \o semantic_response

\* the end of hybrid_search: sort the combined chunks by chunk number, drop the
\* duplicates, answer
merge(keyword_response, semantic_response, combined_chunks, log) ==
    VectorResponse(
        unique_chunks(sort_by_chunk_number(combined_chunks)),
        [NoTrace EXCEPT !.log = log,
                        !.keyword_response = Ids(keyword_response),
                        !.semantic_response = Ids(semantic_response),
                        !.combined_chunks = Ids(combined_chunks)])

\* the searches of hybrid_search and what it makes of them
search_and_merge(keyword_response, keywords, semantic_response, log) ==
    merge(keyword_response, semantic_response,
          combine(sort_by_keywords(keyword_response, keywords), semantic_response),
          log)

\* the keyword lookup made whatever the keywords
keyword_lookup_always(st, document_id, keywords, pageSize) ==
    text_match_search(st, document_id, keywords, pageSize)

\* the keyword lookup, made only "if keywords"
keyword_lookup(st, document_id, keywords, pageSize) ==
    IF keywords # << >> THEN text_match_search(st, document_id, keywords, pageSize)
    ELSE << >>

\* the calls to the store and to the embedding provider, in order: the keyword
\* lookup (when there are keywords), embed_query, the similarity search; failAt is
\* the one that raises (0: none does)
hybrid_search(st, query, document_id, keywords, pageSize, failAt) ==
    LET first == IF keywords # << >> THEN <<"extract_keywords", "query_points_filter">>
                 ELSE <<"extract_keywords">>
        n == Len(first)
    IN  IF n = 2 /\ failAt = 1
        THEN Raised("StoreError", first)
        ELSE IF failAt = n
        THEN Raised("EmbeddingError", first \o <<"embed_query">>)
        ELSE IF failAt = n + 1
        THEN Raised("StoreError", first \o <<"embed_query", "query_points">>)
        ELSE search_and_merge(
                 keyword_lookup(st, document_id, keywords, pageSize),
                 keywords,
                 similarity_search(st, embed_query(query), document_id, SemanticLimit),
                 first \o <<"embed_query", "query_points">>)

----------------------------------------------------------------------------
(* decomposed_search and delete_document *)

\* sub_query_chunks["chunks"]: the chunks of a VectorResponse {message, chunks}
chunks_of(response) == response.chunks

\* a decomposed_search that searches for the query, not for its sub-queries
decomposed_search_query(st, query, document_id, sub_queries, failAt) ==
    LET r == vector_search(st, <<query>>, document_id, 0)
    IN  [resp |-> [NoResp EXCEPT !.outcome = "ok",
                                 !.sub_queries = sub_queries,
                                 !.chunks = chunks_of(r.resp)],
         trace |-> r.trace]

\* a failure inside vector_search leaves decomposed_search as it is
decomposed_search(st, query, document_id, sub_queries, failAt) ==
    LET r == vector_search(st, sub_queries, document_id, failAt)
    IN  IF r.resp.outcome = "raised"
        THEN [r EXCEPT !.trace.log = <<"decompose_query">> \o r.trace.log]
        ELSE [resp |-> [NoResp EXCEPT !.outcome = "ok",
                                      !.sub_queries = sub_queries,
                                      !.chunks = chunks_of(r.resp)],
              trace |-> [r.trace EXCEPT !.log = <<"decompose_query">> \o r.trace.log]]

\* delete_document: the store after the call
delete_document(st, document_id) == delete_points(st, document_id)

----------------------------------------------------------------------------
(* The operations *)

NumBatches(st) == Cardinality({i \in 1..Len(st) : st[i].chunk_number = 1})

Init ==
    /\ store = << >>
    /\ pc = "idle"
    /\ last = NoCall
    /\ resp = NoResp
    /\ trace = NoTrace
    /\ deletedSince = {}

UpsertVectors ==
    /\ pc = "idle"
    /\ \E document_id \in Docs, chunks \in Batches :
          /\ NumBatches(store) < MaxBatches
          /\ Len(store) + Len(chunks) <= MaxPoints
          /\ store' = store \o prepare_chunks(store, document_id, chunks)
          /\ deletedSince' = {e \in deletedSince : e[1] # document_id}
          /\ last' = [NoCall EXCEPT !.op = "upsert_vectors", !.document_id = document_id]
          /\ resp' = [NoResp EXCEPT !.outcome = "ok",
                                    !.message = <<"Successfully upserted", Len(chunks)>>]
          /\ trace' = [NoTrace EXCEPT !.log = <<"upsert">>]
    /\ pc' = "returned"

VectorSearch ==
    /\ pc = "idle"
    /\ \E document_id \in Docs, queries \in QueryLists :
          \E failAt \in 0..(2 * Len(queries)) :
             LET r == vector_search(store, queries, document_id, failAt)
             IN  /\ resp' = r.resp
                 /\ trace' = r.trace
                 /\ last' = [NoCall EXCEPT !.op = "vector_search",
                                           !.document_id = document_id,
                                           !.queries = queries,
                                           !.failAt = failAt]
    /\ pc' = "returned"
    /\ UNCHANGED <<store, deletedSince>>

HybridSearch ==
    /\ pc = "idle"
    /\ \E document_id \in Docs, query \in Queries, keywords \in KeywordLists :
          \E pageSize \in PageSizes,
             failAt \in 0..(IF keywords = << >> THEN 2 ELSE 3) :
             LET r == hybrid_search(store, query, document_id, keywords, pageSize, failAt)
             IN  /\ resp' = r.resp
                 /\ trace' = r.trace
                 /\ last' = [NoCall EXCEPT !.op = "hybrid_search",
                                           !.document_id = document_id,
                                           !.query = query,
                                           !.keywords = keywords,
                                           !.pageSize = pageSize,
                                           !.failAt = failAt]
    /\ pc' = "returned"
    /\ UNCHANGED <<store, deletedSince>>

DecomposedSearch ==
    /\ pc = "idle"
    /\ \E document_id \in Docs, query \in CompoundQueries, sub_queries \in QueryLists :
          \E failAt \in 0..(2 * Len(sub_queries)) :
             LET r == decomposed_search(store, query, document_id, sub_queries, failAt)
             IN  /\ resp' = r.resp
                 /\ trace' = r.trace
                 /\ last' = [NoCall EXCEPT !.op = "decomposed_search",
                                           !.document_id = document_id,
                                           !.query = query,
                                           !.queries = sub_queries,
                                           !.failAt = failAt]
    /\ pc' = "returned"
    /\ UNCHANGED <<store, deletedSince>>

\* client.delete raises (failAt = 1) and nothing is deleted, or deletes and the
\* call answers success
DeleteDocument ==
    /\ pc = "idle"
    /\ \E document_id \in Docs, failAt \in 0..1 :
          /\ last' = [NoCall EXCEPT !.op = "delete_document",
                                    !.document_id = document_id,
                                    !.failAt = failAt]
          /\ IF failAt = 1
             THEN /\ resp' = Raised("StoreError", <<"delete">>).resp
                  /\ trace' = Raised("StoreError", <<"delete">>).trace
                  /\ UNCHANGED <<store, deletedSince>>
             ELSE /\ store' = delete_document(store, document_id)
                  /\ deletedSince' =
                         {e \in deletedSince : e[1] # document_id}
                             \cup {<<document_id,
                                     Len(store) > Len(delete_document(store, document_id))>>}
                  /\ resp' = [NoResp EXCEPT !.outcome = "ok",
                                            !.message = "Document deleted successfully."]
                  /\ trace' = [NoTrace EXCEPT !.log = <<"delete">>]
    /\ pc' = "returned"

Return ==
    /\ pc = "returned"
    /\ pc' = "idle"
    /\ last' = NoCall
    /\ resp' = NoResp
    /\ trace' = NoTrace
    /\ UNCHANGED <<store, deletedSince>>

Next ==
    \/ UpsertVectors
    \/ VectorSearch
    \/ HybridSearch
    \/ DecomposedSearch
    \/ DeleteDocument
    \/ Return

Spec == Init /\ [][Next]_vars

----------------------------------------------------------------------------
(* Properties *)

Returned(op) == pc = "returned" /\ last.op = op

Answered(op) == Returned(op) /\ resp.outcome = "ok"

\* the chunk_number of the point a trace entry names
NumberOf(id) == store[id].chunk_number

Numbers(ids) == {NumberOf(ids[i]) : i \in 1..Len(ids)}

\* the response holds the content and the page of the points of trace.origin, in order
ChunksAreOrigin ==
    /\ Len(resp.chunks) = Len(trace.origin)
    /\ \A i \in 1..Len(trace.origin) :
          /\ trace.origin[i] \in 1..Len(store)
          /\ resp.chunks[i] = [content |-> store[trace.origin[i]].text,
                               page |-> store[trace.origin[i]].page_number]

\* the points of the collection are numbered in order, whatever was upserted and deleted
StoreNumbered == \A i \in 1..Len(store) : store[i].id = i

\* C1: no two chunks of a result of vector_search or of hybrid_search come from the
\* same chunk_number
C1_DedupInvariant ==
    (Answered("vector_search") \/ Answered("hybrid_search")) =>
        /\ ChunksAreOrigin
        /\ \A i, j \in 1..Len(trace.origin) :
              i # j => NumberOf(trace.origin[i]) # NumberOf(trace.origin[j])

\* a hybrid search whose keyword chunks and semantic chunks share a chunk number
C1_Witness ==
    /\ Answered("hybrid_search")
    /\ Len(trace.origin) > 1
    /\ Len(trace.combined_chunks) > Len(trace.origin)

\* C2: every chunk a search for document D returns, and every chunk its semantic and
\* keyword lookups hand back, is a stored point of document D
C2_DocumentScoping ==
    (Answered("vector_search") \/ Answered("hybrid_search")
        \/ Answered("decomposed_search")) =>
        /\ ChunksAreOrigin
        /\ \A ids \in {trace.origin, trace.final_chunks, trace.keyword_response,
                       trace.semantic_response, trace.combined_chunks} :
              \A i \in 1..Len(ids) :
                 /\ ids[i] \in 1..Len(store)
                 /\ store[ids[i]].document_id = last.document_id

\* a hybrid search with keywords that returns chunks while another document holds a
\* chunk one of the keywords matches
C2_Witness ==
    /\ Answered("hybrid_search")
    /\ trace.keyword_response # << >>
    /\ trace.semantic_response # << >>
    /\ \E i \in 1..Len(store) :
          /\ store[i].document_id # last.document_id
          /\ \E k \in 1..Len(last.keywords) : MatchText(store[i].text, last.keywords[k])

\* the places of final_chunks where a chunk number occurs for the first time
FirstPlaces(ids) ==
    {i \in 1..Len(ids) : \A j \in 1..(i - 1) : NumberOf(ids[j]) # NumberOf(ids[i])}

\* the similarity results of the queries, one after the other
RECURSIVE Concatenated(_, _, _)
Concatenated(queries, document_id, i) ==
    IF i > Len(queries) THEN << >>
    ELSE Ids(similarity_search(store, embed_query(queries[i]), document_id,
                               SemanticLimit))
            \o Concatenated(queries, document_id, i + 1)

\* C3: vector_search returns the chunks of the concatenated similarity results, each
\* chunk number at the place of its first occurrence, the later occurrences dropped
C3_FirstOccurrenceOrder ==
    Answered("vector_search") =>
        /\ ChunksAreOrigin
        /\ trace.final_chunks = Concatenated(last.queries, last.document_id, 1)
        /\ Len(trace.origin) = Cardinality(FirstPlaces(trace.final_chunks))
        /\ \A i \in FirstPlaces(trace.final_chunks) :
              trace.origin[Cardinality({j \in FirstPlaces(trace.final_chunks) : j <= i})]
                  = trace.final_chunks[i]

\* two queries, the second one bringing chunks the first one did not and chunks it
\* did, and a result that is not in the order of the chunk numbers
C3_Witness ==
    /\ Answered("vector_search")
    /\ Len(last.queries) = 2
    /\ Len(trace.origin) > SemanticLimit
    /\ Len(trace.final_chunks) > Len(trace.origin)
    /\ \E i \in 1..(Len(trace.origin) - 1) :
          NumberOf(trace.origin[i]) > NumberOf(trace.origin[i + 1])

\* C4: the result of hybrid_search is in ascending order of the chunk numbers
C4_HybridOrdering ==
    Answered("hybrid_search") =>
        /\ ChunksAreOrigin
        /\ \A i \in 1..(Len(trace.origin) - 1) :
              NumberOf(trace.origin[i]) <= NumberOf(trace.origin[i + 1])

\* a hybrid search whose combined chunks were not in the order of the chunk numbers
C4_Witness ==
    /\ Answered("hybrid_search")
    /\ trace.keyword_response # << >>
    /\ Len(trace.origin) > 2
    /\ \E i \in 1..(Len(trace.combined_chunks) - 1) :
          NumberOf(trace.combined_chunks[i]) > NumberOf(trace.combined_chunks[i + 1])

\* the keyword chunks that entered the merge: the combined chunks before the
\* semantic ones
KeywordPart ==
    SubSeq(trace.combined_chunks, 1,
           Len(trace.combined_chunks) - Len(trace.semantic_response))

Score(id) == count_keywords(store[id].text, last.keywords)

Place(ids, id) == CHOOSE i \in 1..Len(ids) : ids[i] = id

\* a goes before b in the ranking: a greater score, or the same score and an earlier
\* place in the response of the store
RankedBefore(a, b) ==
    \/ Score(a) > Score(b)
    \/ /\ Score(a) = Score(b)
       /\ Place(trace.keyword_response, a) < Place(trace.keyword_response, b)

\* C5: the keyword chunks that enter the merge are the first 20 of the matched
\* chunks ranked by descending score, equal scores in the order of retrieval; never
\* more than 20 of them
C5_KeywordCap ==
    (Answered("hybrid_search") /\ last.keywords # << >>) =>
        /\ Len(trace.combined_chunks) >= Len(trace.semantic_response)
        /\ SubSeq(trace.combined_chunks, Len(KeywordPart) + 1,
                  Len(trace.combined_chunks)) = trace.semantic_response
        /\ Len(KeywordPart) <= 20
        /\ Len(KeywordPart) = Min(20, Len(trace.keyword_response))
        /\ Range(KeywordPart) \subseteq Range(trace.keyword_response)
        /\ \A k \in 1..(Len(KeywordPart) - 1) :
              RankedBefore(KeywordPart[k], KeywordPart[k + 1])
        /\ \A id \in Range(trace.keyword_response) \ Range(KeywordPart) :
              RankedBefore(KeywordPart[Len(KeywordPart)], id)

\* more than 20 chunks matched, with different scores and with equal ones, and the
\* ranking is not the order of retrieval
C5_Witness ==
    /\ Answered("hybrid_search")
    /\ Len(trace.keyword_response) > 20
    /\ Len(KeywordPart) = 20
    /\ KeywordPart # SubSeq(trace.keyword_response, 1, 20)
    /\ \E k \in 1..19 : Score(KeywordPart[k]) = Score(KeywordPart[k + 1])
    /\ \E k \in 1..19 : Score(KeywordPart[k]) > Score(KeywordPart[k + 1])

\* C6: with no keywords hybrid_search makes no keyword lookup, does not fail, and
\* returns the chunks of the semantic search for the query, in ascending order of
\* the chunk numbers
C6_EmptyKeywords ==
    (Returned("hybrid_search") /\ last.keywords = << >> /\ last.failAt = 0) =>
        LET semantic == vector_search(store, <<last.query>>, last.document_id, 0).trace.origin
        IN  /\ resp.outcome = "ok"
            /\ ChunksAreOrigin
            /\ \A i \in 1..Len(trace.log) : trace.log[i] # "query_points_filter"
            /\ trace.keyword_response = << >>
            /\ Len(trace.origin) = Len(semantic)
            /\ Range(trace.origin) = Range(semantic)
            /\ \A i \in 1..(Len(trace.origin) - 1) :
                  NumberOf(trace.origin[i]) < NumberOf(trace.origin[i + 1])

\* no keywords, a document of more than 40 chunks, and a semantic order that is not
\* the order of the chunk numbers
C6_Witness ==
    /\ Answered("hybrid_search")
    /\ last.keywords = << >>
    /\ Len(trace.origin) = SemanticLimit
    /\ Cardinality({i \in 1..Len(store) : store[i].document_id = last.document_id})
          > SemanticLimit
    /\ trace.origin # trace.semantic_response

C8_DeleteThenSearch ==
    (Returned("vector_search") /\ last.failAt = 0
        /\ \E b \in BOOLEAN : <<last.document_id, b>> \in deletedSince) =>
        /\ resp.outcome = "ok"
        /\ resp.chunks = << >>

\* the delete removed points of D, the collection still holds points of another
\* document, and the search for D has queries
C8_Witness ==
    /\ Answered("vector_search")
    /\ <<last.document_id, TRUE>> \in deletedSince
    /\ Len(last.queries) > 0
    /\ store # << >>
    /\ resp.chunks = << >>

\* the calls a search made to the embedding provider and to the store
CallsMade ==
    Cardinality({i \in 1..Len(trace.log) :
        trace.log[i] \in {"embed_query", "query_points", "query_points_filter"}})

\* C9: a search in which a call to the embedding provider or to the store fails ends
\* with that failure, unchanged, returns no chunks and makes no further call
C9_FailurePropagates ==
    ((Returned("vector_search") \/ Returned("hybrid_search")
         \/ Returned("decomposed_search")) /\ last.failAt > 0) =>
        /\ resp.outcome = "raised"
        /\ resp.chunks = << >>
        /\ resp.error = IF trace.log[Len(trace.log)] = "embed_query"
                        THEN "EmbeddingError" ELSE "StoreError"
        /\ CallsMade = last.failAt

\* the second query of a vector_search fails after the first one found chunks
C9_Witness ==
    /\ Returned("vector_search")
    /\ Len(last.queries) = 2
    /\ last.failAt > 2
    /\ resp.outcome = "raised"
    /\ \E i \in 1..Len(store) : store[i].document_id = last.document_id

\* C10: the chunk numbers of a hybrid result are those of the top-20 keyword chunks
\* and of the semantic chunks, at most 40, together: none lost, none added, at most
\* 60 chunks
C10_HybridUnion ==
    Answered("hybrid_search") =>
        /\ ChunksAreOrigin
        /\ Numbers(trace.origin)
              = Numbers(KeywordPart) \cup Numbers(trace.semantic_response)
        /\ Range(trace.origin)
              \subseteq Range(KeywordPart) \cup Range(trace.semantic_response)
        /\ Len(trace.semantic_response) <= 40
        /\ Len(trace.origin) <= 60

\* 20 keyword chunks and 40 semantic chunks with no chunk number in common
C10_Witness ==
    /\ Answered("hybrid_search")
    /\ Len(KeywordPart) = 20
    /\ Len(trace.semantic_response) = 40
    /\ Len(trace.origin) = 60

====
